---- MODULE Spec2Model ----
(***************************************************************************)
(* Boundary mapping of a paddy: the BoundaryMappingModal component         *)
(* (src/app/device/[id]/components/BoundaryMappingModal.tsx) together with *)
(* the page handlers it is wired to (src/unnamed/part_001, "Boundary       *)
(* handlers").                                                             *)
(*                                                                         *)
(* Coordinates.  A vertex is a record [lat, lng] of integers: offsets from *)
(* a base point on the equator, counted in units of 2.5e-9 degree (a       *)
(* quarter of the 8th decimal place).  With R = 6371e3 m one unit is       *)
(* R * pi/180 * 2.5e-9 = 0.000278 m, and over the few metres the model     *)
(* spans the Haversine distance is the planar distance to well below one   *)
(* unit.  Distances are therefore compared through their squares, in       *)
(* units: 0.5 m is 1799 units and 0.3 m is 1079 units.  All products stay  *)
(* below 2^31.                                                             *)
(***************************************************************************)
EXTENDS Integers, Sequences, FiniteSets, TLC

VARIABLES
    polygonCoords,            \* page state: the ordered vertex sequence
    isSavingBoundary,         \* page state: the saving flag
    hasSavedBoundary,         \* page state
    showBoundaryModal,        \* page state: the modal's `show` prop
    pointAddedNotification,   \* page state: the 2 s "point added" toast
    mapMode,                  \* modal state: "view" | "edit"
    isLocked,                 \* modal state: the lifecycle tag (Locked / Draft)
    validationError,          \* modal state: the reason shown to the operator
    inFlight,                 \* the pending updateDoc calls, oldest first: their arguments
    saveOutcome,              \* how the last save request ended; forgotten on unlock
    unlockAnswer,             \* the answer just given to the confirm() dialog
    isLocating,               \* modal state: waiting for the device location
    currentCenter,            \* modal state: where the map centre came from
    geoPending,               \* getCurrentPosition requests not yet answered
    locatingOps,              \* operator commands given while a request is pending
    flightOps,                \* vertex changes made while updateDoc is pending
    kernelCall,               \* a single call of a geometry function: its arguments
    kernelResult              \* what that call returned

vars == << polygonCoords, isSavingBoundary, hasSavedBoundary, showBoundaryModal,
           pointAddedNotification, mapMode, isLocked, validationError,
           inFlight, saveOutcome, unlockAnswer, isLocating, currentCenter,
           geoPending, locatingOps, flightOps, kernelCall, kernelResult >>

pageVars == << isSavingBoundary, hasSavedBoundary, showBoundaryModal >>
saveVars == << inFlight, saveOutcome, flightOps >>
geoVars == << isLocating, currentCenter, geoPending, locatingOps >>
kernelVars == << kernelCall, kernelResult >>

-----------------------------------------------------------------------------
(* Program constants *)

MIN_POINT_DISTANCE_UNITS == 1799
SNAP_TOLERANCE_UNITS == 1079
MIN_POINTS == 3
\* 90 degrees and 360 degrees, in thousands of units
LAT_LIMIT_KILOUNITS == 36000000
LNG_TURN_KILOUNITS == 144000000
\* Where the base point lies: this many units west of the 180th meridian
LNG_MAX_UNITS == 15000
MAX_POINTS == 10

(* Bounds of the model *)

MaxFlightOps == 1
MaxLocatingOps == 1

-----------------------------------------------------------------------------
(* Vertices the operator may click or type *)

Pt(lat, lng) == [lat |-> lat, lng |-> lng]

PA == Pt(0, 0)
PB == Pt(0, 10000)
PC == Pt(5000, 5001)
PD == Pt(-6001, 5000)
PF == Pt(0, 5000)

Pool == {PA, PB, PC, PD, PF}

\* A slip of the hand: 999 units (0.28 m) north of a vertex already placed,
\* within SNAP_TOLERANCE of it
Nudged(v) == Pt(v.lat + 999, v.lng)

\* 1500 units (0.42 m) east of a vertex already placed: within MIN_DISTANCE
\* of it and outside SNAP_TOLERANCE
Sidestep(v) == Pt(v.lat, v.lng + 1500)

RingLen == 11
\* Longest vertex list handed to snapPoint when it is called on its own
MaxSnapCoords == 3

Ring == [i \in 1..RingLen |-> Pt(100 * (i - 1) * (i - 1), 2000 * (i - 1))]
\* A point off the surveyed boundary, south-west of the first post
Outlier == Pt(-1000, -3000)

NoError == "none"
NoCall == << >>
NoCenter == "none"
\* No geometry function is being called on its own
IdleCall == [fn |-> "none", pts |-> << >>, p |-> Pt(0, 0)]
NoResult == [done |-> FALSE, hit |-> FALSE, pt |-> Pt(0, 0)]

-----------------------------------------------------------------------------
(* GeometryKernel *)

\* calculateDistance, squared and in units: the Haversine distance of two
\* vertices a few metres apart is the planar one.
calculateDistanceSq(a, b) ==
    (b.lat - a.lat) * (b.lat - a.lat) + (b.lng - a.lng) * (b.lng - a.lng)

\* Mutant: only the vertex placed last is compared
isPointTooClose_lastOnly(coords, p) ==
    /\ Len(coords) > 0
    /\ calculateDistanceSq(p, coords[Len(coords)])
            < MIN_POINT_DISTANCE_UNITS * MIN_POINT_DISTANCE_UNITS

\* Mutant: only a vertex at the very same place counts as too close
isPointTooClose_sameOnly(coords, p) ==
    \E i \in 1..Len(coords) : calculateDistanceSq(p, coords[i]) = 0

\* some(coord => calculateDistance(lat, lng, coord) < MIN_POINT_DISTANCE_METERS)
isPointTooClose(coords, p) ==
    \E i \in 1..Len(coords) :
        calculateDistanceSq(p, coords[i])
            < MIN_POINT_DISTANCE_UNITS * MIN_POINT_DISTANCE_UNITS

\* distance < SNAP_TOLERANCE_METERS && distance > 0
withinSnap(p, coord) ==
    /\ calculateDistanceSq(p, coord) < SNAP_TOLERANCE_UNITS * SNAP_TOLERANCE_UNITS
    /\ calculateDistanceSq(p, coord) > 0

\* Mutant: the nearest vertex within tolerance is returned, not the first
snapPoint_nearest(coords, p) ==
    IF \E i \in 1..Len(coords) : withinSnap(p, coords[i])
    THEN LET k == CHOOSE i \in 1..Len(coords) :
                    /\ withinSnap(p, coords[i])
                    /\ \A j \in 1..Len(coords) :
                          withinSnap(p, coords[j])
                             => \/ calculateDistanceSq(p, coords[i])
                                      < calculateDistanceSq(p, coords[j])
                                \/ /\ calculateDistanceSq(p, coords[i])
                                         = calculateDistanceSq(p, coords[j])
                                   /\ i <= j
         IN  Pt(coords[k].lat, coords[k].lng)
    ELSE Pt(p.lat, p.lng)

\* for (const coord of polygonCoords): the first vertex within tolerance
snapPoint(coords, p) ==
    IF \E i \in 1..Len(coords) : withinSnap(p, coords[i])
    THEN LET k == CHOOSE i \in 1..Len(coords) :
                    /\ withinSnap(p, coords[i])
                    /\ \A j \in 1..(i - 1) : ~withinSnap(p, coords[j])
         IN  Pt(coords[k].lat, coords[k].lng)
    ELSE Pt(p.lat, p.lng)

\* Mutant: the ends of the unit interval are let in (0 <= num / det <= 1)
inOpenUnit_closed(num, det) ==
    IF det > 0 THEN 0 <= num /\ num <= det
               ELSE det <= num /\ num <= 0

\* 0 < num / det < 1 for det # 0, without the division
inOpenUnit(num, det) ==
    IF det > 0 THEN 0 < num /\ num < det
               ELSE det < num /\ num < 0

doLinesIntersect(a1, a2, b1, b2) ==
    LET det    == (a2.lng - a1.lng) * (b2.lat - b1.lat)
                    - (b2.lng - b1.lng) * (a2.lat - a1.lat)
        lambda == (b2.lat - b1.lat) * (b2.lng - a1.lng)
                    + (b1.lng - b2.lng) * (b2.lat - a1.lat)
        gamma  == (a1.lat - a2.lat) * (b2.lng - a1.lng)
                    + (a2.lng - a1.lng) * (b2.lat - a1.lat)
    IN  IF det = 0 THEN FALSE
        ELSE inOpenUnit(lambda, det) /\ inOpenUnit(gamma, det)

\* Mutant: the loop stops one edge early (i < length - 3)
wouldCreateSelfIntersection_shortLoop(coords, p) ==
    IF Len(coords) < 3 THEN FALSE
    ELSE \E i \in 1..(Len(coords) - 3) :
            doLinesIntersect(coords[Len(coords)], p, coords[i], coords[i + 1])

\* for (let i = 0; i < polygonCoords.length - 2; i++): 0-based i is i - 1 here
wouldCreateSelfIntersection(coords, p) ==
    IF Len(coords) < 3 THEN FALSE
    ELSE \E i \in 1..(Len(coords) - 2) :
            doLinesIntersect(coords[Len(coords)], p, coords[i], coords[i + 1])

\* Mutant: the capacity test is off by one (length > MAX_POINTS)
validatePoint_capOffByOne(coords, p) ==
    IF Len(coords) > MAX_POINTS THEN "max"
    ELSE IF isPointTooClose(coords, p) THEN "tooClose"
    ELSE IF wouldCreateSelfIntersection(coords, p) THEN "selfIntersect"
    ELSE "ok"

\* Mutant: the spacing test is left out
validatePoint_noSpacing(coords, p) ==
    IF Len(coords) >= MAX_POINTS THEN "max"
    ELSE IF wouldCreateSelfIntersection(coords, p) THEN "selfIntersect"
    ELSE "ok"

\* Mutant: the intersection test runs only from the fifth vertex on
validatePoint_lateIntersection(coords, p) ==
    IF Len(coords) >= MAX_POINTS THEN "max"
    ELSE IF isPointTooClose(coords, p) THEN "tooClose"
    ELSE IF Len(coords) >= 4 /\ wouldCreateSelfIntersection(coords, p)
         THEN "selfIntersect"
    ELSE "ok"

\* Mutant: the spacing test runs before the capacity test
validatePoint_spacingFirst(coords, p) ==
    IF isPointTooClose(coords, p) THEN "tooClose"
    ELSE IF Len(coords) >= MAX_POINTS THEN "max"
    ELSE IF wouldCreateSelfIntersection(coords, p) THEN "selfIntersect"
    ELSE "ok"

\* The three checks both entry paths run, in the order they run them
validatePoint(coords, p) ==
    IF Len(coords) >= MAX_POINTS THEN "max"
    ELSE IF isPointTooClose(coords, p) THEN "tooClose"
    ELSE IF wouldCreateSelfIntersection(coords, p) THEN "selfIntersect"
    ELSE "ok"

\* Mutant: COORD_DECIMAL_PRECISION, six decimals, used for the stored value
toFixed8_sixDecimals(x) == 400 * ((x + 200) \div 400)

\* parseFloat(x.toFixed(8)): the nearest multiple of 1e-8 degree (4 units)
toFixed8(x) == 4 * ((x + 2) \div 4)

-----------------------------------------------------------------------------
(* The page's boundary handlers *)

handleAddPoint(coords, lat, lng) == Append(coords, Pt(lat, lng))

\* Mutant: the filter counts positions from one
handleRemovePoint_oneBased(coords, index) ==
    LET keep == {i \in 1..Len(coords) : i # index}
        F[k \in 0..Len(coords)] ==
            IF k = 0 THEN << >>
            ELSE IF k \in keep THEN Append(F[k - 1], coords[k]) ELSE F[k - 1]
    IN  F[Len(coords)]

\* prev.filter((_, i) => i !== index), index 0-based
handleRemovePoint(coords, index) ==
    LET keep == {i \in 1..Len(coords) : i - 1 # index}
        F[k \in 0..Len(coords)] ==
            IF k = 0 THEN << >>
            ELSE IF k \in keep THEN Append(F[k - 1], coords[k]) ELSE F[k - 1]
    IN  F[Len(coords)]

\* Mutant: slice(1) in place of slice(0, -1)
handleRemoveLastPoint_dropsFirst(coords) ==
    IF Len(coords) = 0 THEN << >> ELSE SubSeq(coords, 2, Len(coords))

\* prev.slice(0, -1)
handleRemoveLastPoint(coords) ==
    IF Len(coords) = 0 THEN << >> ELSE SubSeq(coords, 1, Len(coords) - 1)

\* Mutant: the first vertex survives the clear
handleClearPolygon_keepsFirst == SubSeq(polygonCoords, 1, 1)

\* setPolygonCoords([])
handleClearPolygon == << >>

\* Mutant: a triangle is taken for too short a list
calculatePolygonArea_minFour(coords) ==
    IF Len(coords) < 4 THEN 0
    ELSE LET n == Len(coords)
             next(i) == (i % n) + 1
             S[k \in 0..n] ==
                 IF k = 0 THEN 0
                 ELSE S[k - 1] + (coords[next(k)].lng - coords[k].lng)
                                 * (coords[k].lat + coords[next(k)].lat)
         IN  IF S[n] < 0 THEN -S[n] ELSE S[n]

\* calculatePolygonArea, in half square units: the sum over the closed ring of
\* (lng2 - lng1) * (2 + sin lat1 + sin lat2).  The terms 2 * (lng2 - lng1)
\* cancel round the ring, and within a field's extent at the equator sin lat
\* is lat, so what remains is (lng2 - lng1) * (lat1 + lat2); the factor
\* R * R / 2 and the radian conversion are the unit.
calculatePolygonArea(coords) ==
    IF Len(coords) < 3 THEN 0
    ELSE LET n == Len(coords)
             next(i) == (i % n) + 1
             S[k \in 0..n] ==
                 IF k = 0 THEN 0
                 ELSE S[k - 1] + (coords[next(k)].lng - coords[k].lng)
                                 * (coords[k].lat + coords[next(k)].lat)
         IN  IF S[n] < 0 THEN -S[n] ELSE S[n]

\* the boundary object handed to updateDoc (updatedAt, a clock reading, left out)
boundaryPayload(coords) ==
    [ coordinates |-> [i \in 1..Len(coords) |->
                          Pt(toFixed8(coords[i].lat), toFixed8(coords[i].lng))],
      area        |-> calculatePolygonArea(coords),
      pointCount  |-> Len(coords) ]

-----------------------------------------------------------------------------
TypeOK ==
    /\ mapMode \in {"view", "edit"}
    /\ isLocked \in BOOLEAN
    /\ isSavingBoundary \in BOOLEAN
    /\ hasSavedBoundary \in BOOLEAN
    /\ showBoundaryModal \in BOOLEAN
    /\ pointAddedNotification \in BOOLEAN
    /\ validationError \in {NoError, "invalid", "latRange", "lngRange", "max",
                           "tooClose", "selfIntersect", "onlyLast"}
    /\ saveOutcome \in {"none", "skipped", "pending", "ok", "failed"}
    /\ unlockAnswer \in {"none", "ok", "cancel"}
    /\ flightOps \in 0..(MaxFlightOps + 1)
    /\ isLocating \in BOOLEAN
    /\ currentCenter \in {NoCenter, "device", "mapCenter", "default"}
    /\ geoPending \in 0..(MaxLocatingOps + 1)
    /\ locatingOps \in 0..MaxLocatingOps
    /\ kernelCall.fn \in {"none", "doLinesIntersect", "snapPoint"}
    /\ kernelResult.done \in BOOLEAN
    /\ kernelResult.hit \in BOOLEAN

Init ==
    /\ polygonCoords = << >>
    /\ isSavingBoundary = FALSE
    /\ hasSavedBoundary = FALSE
    /\ showBoundaryModal = FALSE
    /\ pointAddedNotification = FALSE
    /\ mapMode = "view"
    /\ isLocked = FALSE
    /\ validationError = NoError
    /\ inFlight = NoCall
    /\ saveOutcome = "none"
    /\ unlockAnswer = "none"
    /\ flightOps = 0
    /\ isLocating = TRUE
    /\ currentCenter = NoCenter
    /\ geoPending = 0
    /\ locatingOps = 0
    /\ kernelCall = IdleCall
    /\ kernelResult = NoResult

\* The modal renders its controls only while `show` is set
Rendered == showBoundaryModal

\* A vertex change while updateDoc is pending is counted, up to MaxFlightOps
FlightBudget == isSavingBoundary => flightOps < MaxFlightOps

countFlightOp == flightOps' = IF isSavingBoundary THEN flightOps + 1 ELSE flightOps

-----------------------------------------------------------------------------
(* The modal's handlers *)

\* mapCenter || DEFAULT_FALLBACK_LOCATION; given: the page passed a mapCenter
fallbackCenter(given) == IF given THEN "mapCenter" ELSE "default"

\* The map and its click handler are drawn once a centre is there and the
\* locating spinner is gone
mapReady == ~isLocating /\ currentCenter # NoCenter

\* An operator command leaves the geolocation state alone; the provider answers
\* within MaxLocatingOps commands of the request, a reopening among them
operatorStep ==
    /\ geoPending > 0 => locatingOps < MaxLocatingOps
    /\ locatingOps' = IF geoPending > 0 THEN locatingOps + 1 ELSE locatingOps
    /\ UNCHANGED << isLocating, currentCenter, geoPending >>
    /\ UNCHANGED kernelVars

\* ControlPanel's "Map Boundary" / "Edit Boundary" button, and the effect that
\* runs when `show` turns true: setIsLocating(true), then getCurrentPosition,
\* or the fallback at once where the browser has no geolocation
OpenBoundaryMap(supported, given) ==
    /\ ~showBoundaryModal
    /\ showBoundaryModal' = TRUE
    /\ unlockAnswer' = "none"
    /\ IF supported
       THEN /\ geoPending > 0 => locatingOps < MaxLocatingOps
            /\ locatingOps' = IF geoPending > 0 THEN locatingOps + 1 ELSE locatingOps
            /\ geoPending' = geoPending + 1
            /\ isLocating' = TRUE
            /\ UNCHANGED << currentCenter >>
       ELSE /\ currentCenter' = fallbackCenter(given)
            /\ isLocating' = FALSE
            /\ UNCHANGED << geoPending, locatingOps >>
    /\ UNCHANGED << polygonCoords, isSavingBoundary, hasSavedBoundary,
                    pointAddedNotification, mapMode, isLocked, validationError,
                    saveVars, kernelVars >>

\* getCurrentPosition's success callback
GeoSuccess ==
    /\ geoPending > 0
    /\ geoPending' = geoPending - 1
    /\ locatingOps' = 0
    /\ currentCenter' = "device"
    /\ isLocating' = FALSE
    /\ unlockAnswer' = "none"
    /\ UNCHANGED << polygonCoords, pageVars, pointAddedNotification, mapMode,
                    isLocked, validationError, saveVars, kernelVars >>

\* Mutant: the error callback leaves the spinner on
GeoError_keepsLocating(given) ==
    /\ geoPending > 0
    /\ geoPending' = geoPending - 1
    /\ locatingOps' = 0
    /\ currentCenter' = fallbackCenter(given)
    /\ isLocating' = isLocating
    /\ unlockAnswer' = "none"
    /\ UNCHANGED << polygonCoords, pageVars, pointAddedNotification, mapMode,
                    isLocked, validationError, saveVars, kernelVars >>

\* getCurrentPosition's error callback (denied, unavailable, or the 10 s timeout)
GeoError(given) ==
    /\ geoPending > 0
    /\ geoPending' = geoPending - 1
    /\ locatingOps' = 0
    /\ currentCenter' = fallbackCenter(given)
    /\ isLocating' = FALSE
    /\ unlockAnswer' = "none"
    /\ UNCHANGED << polygonCoords, pageVars, pointAddedNotification, mapMode,
                    isLocked, validationError, saveVars, kernelVars >>

\* Header back arrow: onClose(); setMapMode('view')
CloseHeader ==
    /\ Rendered
    /\ ~isSavingBoundary
    /\ showBoundaryModal' = FALSE
    /\ mapMode' = "view"
    /\ unlockAnswer' = "none"
    /\ UNCHANGED << polygonCoords, isSavingBoundary, hasSavedBoundary,
                    pointAddedNotification, isLocked, validationError, saveVars >>
    /\ operatorStep

\* Footer Close / Cancel: onClose()
CloseFooter ==
    /\ Rendered
    /\ ~isSavingBoundary
    /\ showBoundaryModal' = FALSE
    /\ unlockAnswer' = "none"
    /\ UNCHANGED << polygonCoords, isSavingBoundary, hasSavedBoundary,
                    pointAddedNotification, mapMode, isLocked, validationError,
                    saveVars >>
    /\ operatorStep

\* "View" button
ViewButton ==
    /\ Rendered
    /\ mapMode' = "view"
    /\ unlockAnswer' = "none"
    /\ UNCHANGED << polygonCoords, pageVars, pointAddedNotification, isLocked,
                    validationError, saveVars >>
    /\ operatorStep

\* Mutant: the answer to confirm() is not looked at
handleUnlockBoundary_noConfirm(answer) ==
    /\ unlockAnswer' = IF answer THEN "ok" ELSE "cancel"
    /\ isLocked' = FALSE
    /\ mapMode' = "edit"
    /\ saveOutcome' = "none"

\* if (confirm(...)) { setIsLocked(false); setMapMode('edit') }
handleUnlockBoundary(answer) ==
    /\ unlockAnswer' = IF answer THEN "ok" ELSE "cancel"
    /\ IF answer
       THEN isLocked' = FALSE /\ mapMode' = "edit" /\ saveOutcome' = "none"
       ELSE UNCHANGED << isLocked, mapMode, saveOutcome >>

\* Mutant: the button switches to edit mode whether or not the boundary is locked
EditButton_noLockCheck(answer) ==
    /\ Rendered
    /\ mapMode' = "edit"
    /\ unlockAnswer' = "none"
    /\ UNCHANGED << isLocked, saveOutcome >>
    /\ UNCHANGED << polygonCoords, pageVars, pointAddedNotification,
                    validationError, inFlight, flightOps >>
    /\ operatorStep

\* "Edit" / "Unlock" button: isLocked ? handleUnlockBoundary() : setMapMode('edit')
EditButton(answer) ==
    /\ Rendered
    /\ IF isLocked
       THEN handleUnlockBoundary(answer)
       ELSE /\ mapMode' = "edit"
            /\ unlockAnswer' = "none"
            /\ UNCHANGED << isLocked, saveOutcome >>
    /\ UNCHANGED << polygonCoords, pageVars, pointAddedNotification,
                    validationError, inFlight, flightOps >>
    /\ operatorStep

\* The gate of the map's click handler: if (isLocked || mapMode !== 'edit') return
clickIgnored == isLocked \/ mapMode # "edit"

\* Mutant: the self-intersection branch lacks its return
addValidated_noReturn(p) ==
    LET verdict == validatePoint(polygonCoords, p)
        snapped == snapPoint(polygonCoords, p)
    IN  IF verdict \in {"max", "tooClose"}
        THEN /\ validationError' = verdict
             /\ UNCHANGED << polygonCoords, pointAddedNotification, flightOps >>
        ELSE /\ polygonCoords' = handleAddPoint(polygonCoords, snapped.lat, snapped.lng)
             /\ pointAddedNotification' = TRUE
             /\ validationError' = NoError
             /\ countFlightOp

\* The part shared by both entry paths from the capacity check on
addValidated(p) ==
    LET verdict == validatePoint(polygonCoords, p)
        snapped == snapPoint(polygonCoords, p)
    IN  IF verdict # "ok"
        THEN /\ validationError' = verdict
             /\ UNCHANGED << polygonCoords, pointAddedNotification, flightOps >>
        ELSE /\ polygonCoords' = handleAddPoint(polygonCoords, snapped.lat, snapped.lng)
             /\ pointAddedNotification' = TRUE
             /\ validationError' = NoError
             /\ countFlightOp

\* useMapEvents({ click(e) { ... } })
MapClick(p) ==
    /\ Rendered
    /\ mapReady
    /\ FlightBudget
    /\ unlockAnswer' = "none"
    /\ IF clickIgnored
       THEN UNCHANGED << polygonCoords, pointAddedNotification, validationError,
                         flightOps >>
       ELSE addValidated(p)
    /\ UNCHANGED << pageVars, mapMode, isLocked, inFlight, saveOutcome >>
    /\ operatorStep

\* lat < -90 || lat > 90, in thousands of units: the base point is on the
\* equator, so no offset of the model comes near a pole
latOutOfRange(p) ==
    \/ p.lat \div 1000 < -LAT_LIMIT_KILOUNITS
    \/ p.lat \div 1000 > LAT_LIMIT_KILOUNITS

\* lng < -180 || lng > 180: the 180th meridian runs LNG_MAX_UNITS east of the
\* base point, the -180th a full turn west of that
lngOutOfRange(p) ==
    \/ (p.lng - LNG_MAX_UNITS) \div 1000 < -LNG_TURN_KILOUNITS
    \/ p.lng > LNG_MAX_UNITS

\* handleAddCoordinateFromInput for the typed pair p; parses is FALSE when
\* parseFloat gives NaN for either field
AddCoordinateFromInput(p, parses) ==
    /\ Rendered
    /\ FlightBudget
    /\ unlockAnswer' = "none"
    /\ IF ~parses
       THEN /\ validationError' = "invalid"
            /\ UNCHANGED << polygonCoords, pointAddedNotification, flightOps >>
       ELSE IF latOutOfRange(p)
       THEN /\ validationError' = "latRange"
            /\ UNCHANGED << polygonCoords, pointAddedNotification, flightOps >>
       ELSE IF lngOutOfRange(p)
       THEN /\ validationError' = "lngRange"
            /\ UNCHANGED << polygonCoords, pointAddedNotification, flightOps >>
       ELSE addValidated(p)
    /\ UNCHANGED << pageVars, mapMode, isLocked, inFlight, saveOutcome >>
    /\ operatorStep

\* The modal's handleRemovePoint(index), index 0-based
RemovePoint(index) ==
    /\ Rendered
    /\ FlightBudget
    /\ unlockAnswer' = "none"
    /\ IF isLocked
       THEN UNCHANGED << polygonCoords, validationError, flightOps >>
       ELSE IF index # Len(polygonCoords) - 1
       THEN /\ validationError' = "onlyLast"
            /\ UNCHANGED << polygonCoords, flightOps >>
       ELSE /\ polygonCoords' = handleRemovePoint(polygonCoords, index)
            /\ validationError' = NoError
            /\ countFlightOp
    /\ UNCHANGED << pageVars, pointAddedNotification, mapMode, isLocked,
                    inFlight, saveOutcome >>
    /\ operatorStep

\* The edit overlay's quick actions are drawn in edit mode for a non-empty
\* polygon and disabled while locked
quickActionsEnabled ==
    /\ Rendered
    /\ mapMode = "edit"
    /\ Len(polygonCoords) > 0
    /\ ~isLocked

\* "Undo": onRemoveLastPoint
UndoButton ==
    /\ quickActionsEnabled
    /\ FlightBudget
    /\ polygonCoords' = handleRemoveLastPoint(polygonCoords)
    /\ countFlightOp
    /\ unlockAnswer' = "none"
    /\ UNCHANGED << pageVars, pointAddedNotification, mapMode, isLocked,
                    validationError, inFlight, saveOutcome >>
    /\ operatorStep

\* "Clear All": onClearPolygon
ClearButton ==
    /\ quickActionsEnabled
    /\ FlightBudget
    /\ polygonCoords' = handleClearPolygon
    /\ countFlightOp
    /\ unlockAnswer' = "none"
    /\ UNCHANGED << pageVars, pointAddedNotification, mapMode, isLocked,
                    validationError, inFlight, saveOutcome >>
    /\ operatorStep

\* setTimeout(() => setPointAddedNotification(false), 2000)
NotificationTimeout ==
    /\ pointAddedNotification
    /\ pointAddedNotification' = FALSE
    /\ unlockAnswer' = "none"
    /\ UNCHANGED << polygonCoords, pageVars, mapMode, isLocked, validationError,
                    saveVars >>
    /\ UNCHANGED << geoVars, kernelVars >>

-----------------------------------------------------------------------------
(* Saving *)

\* Mutant: the save leaves the edit mode on
lockAfterSave_keepsMode ==
    /\ isLocked' = TRUE
    /\ mapMode' = mapMode

\* The modal's handleSaveBoundary after `await onSaveBoundary()`
lockAfterSave ==
    /\ isLocked' = TRUE
    /\ mapMode' = "view"

\* Mutant: the button is not disabled while a save is pending
saveButtonEnabled_whileSaving ==
    /\ Rendered
    /\ ~isLocked
    /\ Len(polygonCoords) >= MIN_POINTS

\* Mutant: the button is not disabled below MIN_POINTS
saveButtonEnabled_noMinimum ==
    /\ Rendered
    /\ ~isLocked
    /\ ~isSavingBoundary

\* The footer's "Save Boundary" button is drawn while unlocked and is disabled
\* while saving or below MIN_POINTS
saveButtonEnabled ==
    /\ Rendered
    /\ ~isLocked
    /\ ~isSavingBoundary
    /\ Len(polygonCoords) >= MIN_POINTS

\* The page's early return: !user || !fieldInfo || !paddyInfo || length < 3
saveSkipped(ctx) == ~ctx \/ Len(polygonCoords) < 3

\* Click on "Save Boundary", up to the await of updateDoc.  ctx: the page has
\* its user, field and paddy.
SaveBoundaryButton(ctx) ==
    /\ saveButtonEnabled
    /\ unlockAnswer' = "none"
    /\ IF saveSkipped(ctx)
       THEN /\ lockAfterSave
            /\ saveOutcome' = "skipped"
            /\ UNCHANGED << isSavingBoundary, inFlight, flightOps >>
       ELSE /\ isSavingBoundary' = TRUE
            /\ inFlight' = Append(inFlight, boundaryPayload(polygonCoords))
            /\ saveOutcome' = "pending"
            /\ flightOps' = 0
            /\ UNCHANGED << isLocked, mapMode >>
    /\ UNCHANGED << polygonCoords, hasSavedBoundary, showBoundaryModal,
                    pointAddedNotification, validationError >>
    /\ operatorStep

\* updateDoc resolves: alert, setHasSavedBoundary(true), setShowBoundaryModal(false),
\* finally setIsSavingBoundary(false); then the modal's continuation
PortResolve ==
    /\ inFlight # NoCall
    /\ hasSavedBoundary' = TRUE
    /\ showBoundaryModal' = FALSE
    /\ isSavingBoundary' = FALSE
    /\ inFlight' = Tail(inFlight)
    /\ saveOutcome' = "ok"
    /\ lockAfterSave
    /\ unlockAnswer' = "none"
    /\ UNCHANGED << polygonCoords, pointAddedNotification, validationError,
                    flightOps >>
    /\ UNCHANGED << geoVars, kernelVars >>

\* updateDoc rejects: catch { alert }, finally setIsSavingBoundary(false); the
\* promise of onSaveBoundary still resolves, then the modal's continuation
PortReject ==
    /\ inFlight # NoCall
    /\ isSavingBoundary' = FALSE
    /\ inFlight' = Tail(inFlight)
    /\ saveOutcome' = "failed"
    /\ lockAfterSave
    /\ unlockAnswer' = "none"
    /\ UNCHANGED << polygonCoords, hasSavedBoundary, showBoundaryModal,
                    pointAddedNotification, validationError, flightOps >>
    /\ UNCHANGED << geoVars, kernelVars >>

-----------------------------------------------------------------------------
(* Specifications *)

\* What the operator may click or type: a point of the pool, or a point next
\* to the first vertex (closing the ring) or to the last one (a double click)
Inputs ==
    Pool \cup UNION {{Nudged(polygonCoords[i]), Sidestep(polygonCoords[i])} :
                        i \in {1, Len(polygonCoords)} \cap 1..Len(polygonCoords)}

Next ==
    \/ OpenBoundaryMap(TRUE, TRUE)
    \/ GeoSuccess
    \/ CloseHeader
    \/ CloseFooter
    \/ ViewButton
    \/ \E answer \in BOOLEAN : EditButton(answer)
    \/ \E p \in Inputs : MapClick(p)
    \/ \E p \in Inputs : AddCoordinateFromInput(p, TRUE)
    \/ \E index \in 0..(Len(polygonCoords) - 1) : RemovePoint(index)
    \/ UndoButton
    \/ ClearButton
    \/ NotificationTimeout
    \/ \E ctx \in BOOLEAN : SaveBoundaryButton(ctx)
    \/ PortResolve
    \/ PortReject

Spec == Init /\ [][Next]_vars

\* The operator walks a surveyed convex boundary post by post: at each step
\* the point offered is the next post, the post just placed, a point next
\* to it, the first post, or a stray point off the boundary.  The posts from
\* the ninth on stand beyond the 180th meridian.
WalkInputs ==
    LET n == Len(polygonCoords)
    IN  (IF n < RingLen THEN {Ring[n + 1]} ELSE {})
        \cup (IF n > 0
              THEN {polygonCoords[n],
                    Nudged(polygonCoords[n]),
                    Ring[1],
                    Outlier}
              ELSE {})

WalkNext ==
    \/ OpenBoundaryMap(TRUE, TRUE)
    \/ GeoSuccess
    \/ CloseHeader
    \/ CloseFooter
    \/ ViewButton
    \/ \E answer \in BOOLEAN : EditButton(answer)
    \/ \E p \in WalkInputs : MapClick(p)
    \/ \E p \in WalkInputs, parses \in BOOLEAN :
          AddCoordinateFromInput(p, parses)
    \/ \E index \in 0..(Len(polygonCoords) - 1) : RemovePoint(index)
    \/ UndoButton
    \/ ClearButton
    \/ NotificationTimeout
    \/ \E ctx \in BOOLEAN : SaveBoundaryButton(ctx)
    \/ PortResolve
    \/ PortReject

WalkSpec == Init /\ [][WalkNext]_vars

\* A boundary saved in an earlier session, as the page hands it to the modal
\* in the polygonCoords prop together with hasSavedBoundary
SavedBoundary == << PA, PB, Pt(5000, 5000) >>

\* The modal as mounted by a page that may already hold a saved boundary: the
\* props carry it, the modal's own state starts from its useState values
InitWithProps ==
    /\ hasSavedBoundary \in BOOLEAN
    /\ polygonCoords = IF hasSavedBoundary THEN SavedBoundary ELSE << >>
    /\ isSavingBoundary = FALSE
    /\ showBoundaryModal = FALSE
    /\ pointAddedNotification = FALSE
    /\ mapMode = "view"
    /\ isLocked = FALSE
    /\ validationError = NoError
    /\ inFlight = NoCall
    /\ saveOutcome = "none"
    /\ unlockAnswer = "none"
    /\ flightOps = 0
    /\ isLocating = TRUE
    /\ currentCenter = NoCenter
    /\ geoPending = 0
    /\ locatingOps = 0
    /\ kernelCall = IdleCall
    /\ kernelResult = NoResult

MountSpec == InitWithProps /\ [][Next]_vars

\* The modal with every answer the geolocation provider can give: a position,
\* an error, or no provider at all, with and without a mapCenter from the
\* page.  The provider answers every request: getCurrentPosition is called
\* with timeout 10000, after which the error callback runs.
LocateNext ==
    \/ \E supported, given \in BOOLEAN : OpenBoundaryMap(supported, given)
    \/ GeoSuccess
    \/ \E given \in BOOLEAN : GeoError(given)
    \/ CloseHeader
    \/ CloseFooter
    \/ ViewButton
    \/ \E answer \in BOOLEAN : EditButton(answer)
    \/ \E p \in {PA, PB, PC} : MapClick(p)
    \/ UndoButton

LocateSpec ==
    /\ Init
    /\ [][LocateNext]_vars
    /\ WF_vars(GeoSuccess \/ \E given \in BOOLEAN : GeoError(given))

\* Saving on its own: a boundary is drawn, saved, and the call to updateDoc
\* settles.  The promise returned by updateDoc resolves or rejects, which
\* is the fairness condition on the two port actions.
SaveNext ==
    \/ OpenBoundaryMap(TRUE, TRUE)
    \/ GeoSuccess
    \/ ViewButton
    \/ \E answer \in BOOLEAN : EditButton(answer)
    \/ \E p \in {PA, PB, PC, PD} : MapClick(p)
    \/ UndoButton
    \/ \E ctx \in BOOLEAN : SaveBoundaryButton(ctx)
    \/ PortResolve
    \/ PortReject

SaveSpec ==
    /\ Init
    /\ [][SaveNext]_vars
    /\ WF_vars(PortResolve \/ PortReject)

\* The geometry functions called on their own.  Segment ends are taken from a
\* three by three grid, which holds crossing, touching, overlapping, parallel
\* and degenerate pairs of segments.
SegmentEnds == {Pt(y, x) : y \in {0, 1000, 2000}, x \in {0, 1000, 2000}}

\* Vertices on one line, 500 units (0.14 m) apart: neighbours and next
\* neighbours are within the snap tolerance, the outermost pair is not.
SnapLine == {Pt(0, x) : x \in {0, 500, 1000, 1500}}

\* polygonCoords as snapPoint may find it: none to MaxSnapCoords vertices
SnapCoords == UNION {[1..n -> SnapLine] : n \in 0..MaxSnapCoords}

KernelCalls ==
    {[fn |-> "doLinesIntersect", pts |-> << a1, a2, b1, b2 >>, p |-> Pt(0, 0)] :
        a1 \in SegmentEnds, a2 \in SegmentEnds,
        b1 \in SegmentEnds, b2 \in SegmentEnds}
    \cup {[fn |-> "snapPoint", pts |-> coords, p |-> p] :
             coords \in SnapCoords, p \in SnapLine}

KernelInit ==
    /\ polygonCoords = << >>
    /\ isSavingBoundary = FALSE
    /\ hasSavedBoundary = FALSE
    /\ showBoundaryModal = FALSE
    /\ pointAddedNotification = FALSE
    /\ mapMode = "view"
    /\ isLocked = FALSE
    /\ validationError = NoError
    /\ inFlight = NoCall
    /\ saveOutcome = "none"
    /\ unlockAnswer = "none"
    /\ flightOps = 0
    /\ isLocating = TRUE
    /\ currentCenter = NoCenter
    /\ geoPending = 0
    /\ locatingOps = 0
    /\ kernelCall \in KernelCalls
    /\ kernelResult = NoResult

CallDoLinesIntersect ==
    /\ kernelCall.fn = "doLinesIntersect"
    /\ ~kernelResult.done
    /\ kernelResult' = [done |-> TRUE,
                        hit  |-> doLinesIntersect(kernelCall.pts[1], kernelCall.pts[2],
                                                  kernelCall.pts[3], kernelCall.pts[4]),
                        pt   |-> Pt(0, 0)]
    /\ UNCHANGED << polygonCoords, pageVars, pointAddedNotification, mapMode,
                    isLocked, validationError, unlockAnswer, saveVars, geoVars,
                    kernelCall >>

CallSnapPoint ==
    /\ kernelCall.fn = "snapPoint"
    /\ ~kernelResult.done
    /\ kernelResult' = [done |-> TRUE,
                        hit  |-> FALSE,
                        pt   |-> snapPoint(kernelCall.pts, kernelCall.p)]
    /\ UNCHANGED << polygonCoords, pageVars, pointAddedNotification, mapMode,
                    isLocked, validationError, unlockAnswer, saveVars, geoVars,
                    kernelCall >>

KernelNext == CallDoLinesIntersect \/ CallSnapPoint

KernelSpec == KernelInit /\ [][KernelNext]_vars

-----------------------------------------------------------------------------
(* Vocabulary of the properties *)

Draft == ~isLocked
Locked == isLocked

\* Both coordinates within the geographic range
inRange(p) == ~latOutOfRange(p) /\ ~lngOutOfRange(p)

\* This step is an addPoint of p that reached validation: a map click that
\* passed the handler's gate, or a manual entry of a well-formed pair
AddAttempt(p) ==
    \/ MapClick(p) /\ ~clickIgnored
    \/ AddCoordinateFromInput(p, TRUE) /\ inRange(p)

sign(x) == IF x > 0 THEN 1 ELSE IF x < 0 THEN -1 ELSE 0

\* Twice the signed area of the triangle a, b, c
orient(a, b, c) ==
    (b.lng - a.lng) * (c.lat - a.lat) - (b.lat - a.lat) * (c.lng - a.lng)

\* Segments ab and cd cross at a point interior to both
properlyCross(a, b, c, d) ==
    /\ sign(orient(a, b, c)) * sign(orient(a, b, d)) < 0
    /\ sign(orient(c, d, a)) * sign(orient(c, d, b)) < 0

\* The edge from the last vertex to p crosses an edge not adjacent to it
crossesExisting(coords, p) ==
    /\ Len(coords) >= 3
    /\ \E i \in 1..(Len(coords) - 2) :
          properlyCross(coords[Len(coords)], p, coords[i], coords[i + 1])

atLeastMinDistance(a, b) ==
    calculateDistanceSq(a, b) >= MIN_POINT_DISTANCE_UNITS * MIN_POINT_DISTANCE_UNITS

-----------------------------------------------------------------------------
(* Claims *)

\* C1: in every reachable state the boundary is Locked only if the most recent
\* save request called the persistence port and that call succeeded.
C1_LockedOnlyAfterSuccessfulSave == Locked => saveOutcome = "ok"

\* C2: when the persistence call of a save fails, the lifecycle is still Draft
\* afterwards and the vertex sequence is what it was, so the save can be retried.
C2_FailedSaveStaysDraft ==
    [][(inFlight # NoCall /\ saveOutcome' = "failed")
          => (Draft' /\ polygonCoords' = polygonCoords)]_vars

C4_SavingRejectsMutations ==
    [][isSavingBoundary => polygonCoords' = polygonCoords]_vars

\* C5: a Locked boundary returns to Draft only in the step in which the unlock
\* dialog is confirmed; a declined dialog leaves the lifecycle Locked and the
\* mode unchanged; a confirmed one leaves Draft and edit mode, where the click
\* handler's gate is open and the quick actions are enabled again.
C5_TwoPhaseUnlock ==
    [][ /\ (Locked /\ Draft') => (unlockAnswer' = "ok" /\ mapMode' = "edit")
        /\ (Locked /\ unlockAnswer' = "cancel")
              => (Locked' /\ mapMode' = mapMode /\ polygonCoords' = polygonCoords)
        /\ (unlockAnswer' = "ok")
              => /\ Draft' /\ mapMode' = "edit"
                 /\ ~clickIgnored'
                 /\ Len(polygonCoords') > 0 => quickActionsEnabled'
      ]_vars

\* C5 witness: the dialog has just been confirmed on a saved boundary
C5_Witness ==
    /\ unlockAnswer = "ok"
    /\ hasSavedBoundary
    /\ Draft
    /\ mapMode = "edit"

\* C6: the number of vertices never exceeds MAX_POINTS, and an addPoint issued
\* with MAX_POINTS vertices present is rejected with the maximum-points reason
\* and leaves the vertex sequence as it is.
C6_CapacityNeverExceeded ==
    [][ /\ Len(polygonCoords') <= MAX_POINTS
        /\ \A p \in WalkInputs :
              (Len(polygonCoords) = MAX_POINTS /\ AddAttempt(p))
                 => (validationError' = "max" /\ polygonCoords' = polygonCoords)
      ]_vars

\* C6 witness: ten vertices are present and an eleventh was refused
C6_Witness ==
    /\ Len(polygonCoords) = MAX_POINTS
    /\ validationError = "max"

\* C7: any two distinct positions of the vertex sequence hold vertices that
\* are at least MIN_DISTANCE apart or identical.
C7_MinSpacing ==
    \A i, j \in 1..Len(polygonCoords) :
        i # j => \/ atLeastMinDistance(polygonCoords[i], polygonCoords[j])
                 \/ polygonCoords[i] = polygonCoords[j]

\* C7 witness: a candidate was refused as too close to a polygon of four
C7_Witness ==
    /\ Len(polygonCoords) >= 4
    /\ validationError = "tooClose"

\* C8: no edge of the open vertex path properly crosses another edge of the
\* path that shares no vertex with it.
C8_OpenPathSimple ==
    \A i, j \in 1..(Len(polygonCoords) - 1) :
        i + 1 < j => ~properlyCross(polygonCoords[i], polygonCoords[i + 1],
                                    polygonCoords[j], polygonCoords[j + 1])

\* C8 witness: a crossing fifth vertex was refused and the path has four
C8_Witness ==
    /\ Len(polygonCoords) = 4
    /\ validationError = "selfIntersect"

\* C9 as stated: every addPoint of a candidate closer than MIN_DISTANCE to an
\* existing vertex returns the spacing rejection and keeps the length.
C9_Original ==
    [][\A p \in WalkInputs :
          (isPointTooClose(polygonCoords, p) /\ AddAttempt(p))
             => /\ validationError' = "tooClose"
                /\ Len(polygonCoords') = Len(polygonCoords)]_vars

\* C9 amended: with fewer than MAX_POINTS vertices present, every addPoint that
\* reaches validation with a candidate closer than MIN_DISTANCE to an existing
\* vertex returns the spacing rejection and leaves the vertex sequence as it is.
C9_SpacingRejection ==
    [][\A p \in WalkInputs :
          (/\ Len(polygonCoords) < MAX_POINTS
           /\ \E i \in 1..Len(polygonCoords) :
                 ~atLeastMinDistance(p, polygonCoords[i])
           /\ AddAttempt(p))
             => /\ validationError' = "tooClose"
                /\ polygonCoords' = polygonCoords]_vars

\* C9 witness: a spacing rejection on a polygon that is not full
C9_Witness ==
    /\ Len(polygonCoords) \in 1..(MAX_POINTS - 1)
    /\ validationError = "tooClose"

\* C10 as stated: every addPoint of a candidate whose edge from the last vertex
\* crosses an existing non-adjacent edge returns the intersection rejection.
C10_Original ==
    [][\A p \in Inputs :
          (crossesExisting(polygonCoords, p) /\ AddAttempt(p))
             => validationError' = "selfIntersect"]_vars

\* C10 amended: with fewer than MAX_POINTS vertices present and the candidate
\* at least MIN_DISTANCE from every vertex, every addPoint that reaches
\* validation with a candidate whose edge from the last vertex crosses an
\* existing non-adjacent edge returns the intersection rejection and leaves
\* the vertex sequence as it is.
C10_IntersectionRejection ==
    [][\A p \in Inputs :
          (/\ Len(polygonCoords) < MAX_POINTS
           /\ crossesExisting(polygonCoords, p)
           /\ \A i \in 1..Len(polygonCoords) :
                 atLeastMinDistance(p, polygonCoords[i])
           /\ AddAttempt(p))
             => /\ validationError' = "selfIntersect"
                /\ polygonCoords' = polygonCoords]_vars

\* C10 witness: an intersection rejection on a polygon of three
C10_Witness ==
    /\ Len(polygonCoords) = 3
    /\ validationError = "selfIntersect"

\* C11: an addPoint that reaches validation with a full polygon, with a
\* candidate nearer than MIN_DISTANCE to a vertex, or with a candidate whose
\* edge crosses an existing one leaves the vertex sequence, the lifecycle and
\* the edit mode as they are, and reports a reason that applies to the
\* candidate.
C11_RejectionFrame ==
    [][\A p \in WalkInputs :
          LET full == Len(polygonCoords) = MAX_POINTS
              near == \E i \in 1..Len(polygonCoords) :
                          ~atLeastMinDistance(p, polygonCoords[i])
              crossing == crossesExisting(polygonCoords, p)
          IN  ((full \/ near \/ crossing) /\ AddAttempt(p))
                 => /\ polygonCoords' = polygonCoords
                    /\ isLocked' = isLocked
                    /\ mapMode' = mapMode
                    /\ validationError' \in {"max", "tooClose", "selfIntersect"}
                    /\ validationError' = "max" => full
                    /\ validationError' = "tooClose" => near
                    /\ validationError' = "selfIntersect" => crossing
      ]_vars

\* C11 witness: the stray point was refused for crossing the walked boundary
C11_Witness ==
    /\ Len(polygonCoords) >= 3
    /\ validationError = "selfIntersect"
    /\ Draft
    /\ mapMode = "edit"
    /\ Outlier \notin {polygonCoords[i] : i \in 1..Len(polygonCoords)}

\* C12: in Draft a removal request for position index removes exactly the last
\* vertex when index is the last position, keeping the others in place and in
\* order, and for any other index is refused with the only-the-most-recent
\* reason and leaves the vertex sequence as it is.
C12_RemoveOnlyLast ==
    [][\A index \in 0..(Len(polygonCoords) - 1) :
          (Draft /\ RemovePoint(index))
             => IF index = Len(polygonCoords) - 1
                THEN /\ Len(polygonCoords') = Len(polygonCoords) - 1
                     /\ \A k \in 1..Len(polygonCoords') :
                           polygonCoords'[k] = polygonCoords[k]
                     /\ validationError' = NoError
                ELSE /\ polygonCoords' = polygonCoords
                     /\ validationError' = "onlyLast"
      ]_vars

\* C12 witness: a removal of a vertex that is not the last was refused
C12_Witness ==
    /\ Draft
    /\ Len(polygonCoords) >= 3
    /\ validationError = "onlyLast"

\* C13: when the last vertex of a Draft polygon is undone, an addPoint of the
\* removed vertex's coordinates on what remains passes validation and gives
\* back the vertex sequence as it was before the undo.
C13_UndoThenReAdd ==
    [][(Len(polygonCoords) > 0
        /\ (UndoButton \/ (Draft /\ RemovePoint(Len(polygonCoords) - 1))))
          => LET v == polygonCoords[Len(polygonCoords)]
                 again == snapPoint(polygonCoords', v)
             IN  /\ validatePoint(polygonCoords', v) = "ok"
                 /\ handleAddPoint(polygonCoords', again.lat, again.lng)
                       = polygonCoords
      ]_vars

\* C13 witness: a vertex was undone after an intersection rejection, which
\* only a polygon of three or more can have drawn
C13_Witness ==
    /\ Draft
    /\ Len(polygonCoords) = 2
    /\ validationError = "selfIntersect"

\* C14: every boundary handed to the persistence port has at least MIN_POINTS
\* vertices, and from a Draft polygon of fewer than MIN_POINTS vertices with no
\* save pending no step starts a port call or leaves Draft.
C14_SaveOnlyWhenReady ==
    [][ /\ inFlight' # NoCall
             => /\ inFlight'[1].pointCount >= MIN_POINTS
                /\ Len(inFlight'[1].coordinates) >= MIN_POINTS
        /\ (Draft /\ Len(polygonCoords) < MIN_POINTS /\ inFlight = NoCall)
             => (Draft' /\ inFlight' = NoCall)
      ]_vars

\* C14 witness: a boundary of exactly MIN_POINTS vertices is with the port
C14_Witness ==
    /\ inFlight # NoCall
    /\ inFlight[1].pointCount = MIN_POINTS
    /\ isSavingBoundary

\* C15: when the persistence call of a save succeeds, the lifecycle becomes
\* Locked and the mode becomes view.
C15_SuccessfulSaveLocks ==
    [][(inFlight # NoCall /\ saveOutcome' = "ok")
          => (Locked' /\ mapMode' = "view")]_vars

\* C15 witness: a save issued in edit mode has succeeded
C15_Witness ==
    /\ saveOutcome = "ok"
    /\ inFlight = NoCall
    /\ Locked
    /\ mapMode = "view"
    /\ hasSavedBoundary

\* C16: the boundary handed to the port lists as many vertices as the polygon
\* has, in the polygon's order, pointCount being that number, each coordinate
\* a multiple of 1e-8 degree no further than half of 1e-8 degree from the
\* polygon's.
C16_PayloadRoundTrip ==
    [][(inFlight = NoCall /\ inFlight' # NoCall)
          => LET b == inFlight'[1]
                 off(x, y) == IF x < y THEN y - x ELSE x - y
             IN  /\ b.pointCount = Len(polygonCoords)
                 /\ Len(b.coordinates) = Len(polygonCoords)
                 /\ \A i \in 1..Len(polygonCoords) :
                       /\ b.coordinates[i].lat % 4 = 0
                       /\ b.coordinates[i].lng % 4 = 0
                       /\ 2 * off(b.coordinates[i].lat, polygonCoords[i].lat) <= 4
                       /\ 2 * off(b.coordinates[i].lng, polygonCoords[i].lng) <= 4
      ]_vars

\* C16 witness: a boundary is with the port in which rounding moved one
\* latitude and one longitude
C16_Witness ==
    /\ inFlight # NoCall
    /\ flightOps = 0
    /\ \E i \in 1..Len(polygonCoords) :
          inFlight[1].coordinates[i].lat # polygonCoords[i].lat
    /\ \E i \in 1..Len(polygonCoords) :
          inFlight[1].coordinates[i].lng # polygonCoords[i].lng

\* C17 as stated: a Draft polygon of three accepted vertices has a spherical
\* area strictly greater than 0.
C17_Original ==
    (Draft /\ Len(polygonCoords) = 3)
       => calculatePolygonArea(polygonCoords) > 0

\* C17 amended: a Draft polygon of three accepted vertices that do not lie on
\* one line is Ready (it has at least MIN_POINTS vertices) and has a spherical
\* area strictly greater than 0.
C17_TriangleHasArea ==
    (/\ Draft
     /\ Len(polygonCoords) = 3
     /\ orient(polygonCoords[1], polygonCoords[2], polygonCoords[3]) # 0)
       => /\ Len(polygonCoords) >= MIN_POINTS
          /\ calculatePolygonArea(polygonCoords) > 0

\* C17 witness: three vertices off one line stand in a Draft polygon that the
\* Save button accepts
C17_Witness ==
    /\ Draft
    /\ Len(polygonCoords) = 3
    /\ orient(polygonCoords[1], polygonCoords[2], polygonCoords[3]) # 0
    /\ saveButtonEnabled

\* C18 as stated: a modal mounted with hasSavedBoundary true and the saved
\* vertex list starts Locked, one mounted with hasSavedBoundary false starts
\* Draft, and a Locked polygon leaves Locked only by a confirmed unlock.
C18_Original ==
    /\ (IF hasSavedBoundary THEN Locked ELSE Draft)
    /\ [][(Locked /\ Draft') => unlockAnswer' = "ok"]_vars

\* C19 as stated: once the modal is shown the locating state ends with a map
\* centre set, and when the provider reports an error or a timeout, or the
\* browser has no geolocation, the centre is the fixed fallback coordinate.
C19_Original ==
    /\ (showBoundaryModal /\ isLocating)
          ~> (~isLocating /\ currentCenter # NoCenter)
    /\ [][\A given \in BOOLEAN :
             (GeoError(given) \/ (OpenBoundaryMap(FALSE, given)))
                => currentCenter' = "default"]_vars

\* C19 amended: once the modal is shown the locating state ends with a map
\* centre set, and when the provider reports an error or a timeout, or the
\* browser has no geolocation, the locating state ends at once and the centre
\* is the mapCenter the page passed, or the fixed fallback coordinate when it
\* passed none.
C19_LocatingEnds ==
    /\ (showBoundaryModal /\ isLocating)
          ~> (~isLocating /\ currentCenter # NoCenter)
    /\ [][\A given \in BOOLEAN :
             (GeoError(given) \/ (OpenBoundaryMap(FALSE, given)))
                => /\ ~isLocating'
                   /\ given => currentCenter' = "mapCenter"
                   /\ ~given => currentCenter' = "default"]_vars

\* C19 witness: the provider failed and the map stands on the page's mapCenter
C19_Witness ==
    /\ showBoundaryModal
    /\ ~isLocating
    /\ geoPending = 0
    /\ currentCenter = "mapCenter"

\* C20 as stated: every vertex stored, whether a map click or a manual entry
\* added it, has its latitude in [-90, 90] and its longitude in [-180, 180].
C20_Original ==
    \A i \in 1..Len(polygonCoords) : inRange(polygonCoords[i])

\* C21: Clear All on a Draft polygon leaves no vertex, whatever their number
\* was, and leaves the lifecycle Draft.
C21_ClearEmpties ==
    [][ClearButton => (Len(polygonCoords') = 0 /\ Draft')]_vars

\* C21 witness: a full polygon that had refused an eleventh point was cleared
C21_Witness ==
    /\ Len(polygonCoords) = 0
    /\ validationError = "max"
    /\ Draft
    /\ mapMode = "edit"

\* C22: an add attempt applies capacity, then spacing, then intersection and
\* reports the reason of the first rule that fails, leaving the vertices as
\* they were; a candidate that fails none becomes the new last vertex.
C22_RulesInOrder ==
    [][\A p \in WalkInputs :
          LET full == Len(polygonCoords) >= MAX_POINTS
              near == \E i \in 1..Len(polygonCoords) :
                          ~atLeastMinDistance(p, polygonCoords[i])
              crossing == crossesExisting(polygonCoords, p)
              refusedAs(reason) == /\ validationError' = reason
                                   /\ polygonCoords' = polygonCoords
          IN  AddAttempt(p) =>
                 IF full THEN refusedAs("max")
                 ELSE IF near THEN refusedAs("tooClose")
                 ELSE IF crossing THEN refusedAs("selfIntersect")
                 ELSE /\ polygonCoords' = Append(polygonCoords, p)
                      /\ validationError' = NoError
      ]_vars

\* C22 witness: a full boundary refused one more point for capacity after the
\* notice of the tenth point had gone
C22_Witness ==
    /\ Len(polygonCoords) = MAX_POINTS
    /\ validationError = "max"
    /\ ~pointAddedNotification
    /\ Draft
    /\ mapMode = "edit"

\* C23: for every candidate that passes validation the snap step returns the
\* candidate itself, no vertex lying within the snap tolerance of it, and the
\* vertex appended is exactly the candidate.
C23_SnapNeverMerges ==
    [][\A p \in WalkInputs :
          (AddAttempt(p) /\ validatePoint(polygonCoords, p) = "ok")
             => /\ \A i \in 1..Len(polygonCoords) : ~withinSnap(p, polygonCoords[i])
                /\ snapPoint(polygonCoords, p) = p
                /\ Len(polygonCoords') = Len(polygonCoords) + 1
                /\ polygonCoords'[Len(polygonCoords')] = p
      ]_vars

\* C23 witness: a vertex was just appended to a boundary of two or more and
\* lies within the snap tolerance of none of the earlier ones
C23_Witness ==
    /\ pointAddedNotification
    /\ Len(polygonCoords) >= 3
    /\ \A i \in 1..(Len(polygonCoords) - 1) :
          ~withinSnap(polygonCoords[Len(polygonCoords)], polygonCoords[i])

\* Point c lies on the segment from a to b, ends included
onSegment(a, b, c) ==
    /\ orient(a, b, c) = 0
    /\ (a.lat <= c.lat /\ c.lat <= b.lat) \/ (b.lat <= c.lat /\ c.lat <= a.lat)
    /\ (a.lng <= c.lng /\ c.lng <= b.lng) \/ (b.lng <= c.lng /\ c.lng <= a.lng)

\* C24: doLinesIntersect answers true exactly when the two segments cross at a
\* point strictly inside both; it answers false when an end of one segment
\* lies on the other (touching, shared vertex) and when the segments are
\* parallel or collinear (zero determinant).
C24_ProperCrossingOnly ==
    (kernelResult.done /\ kernelCall.fn = "doLinesIntersect")
       => LET a1 == kernelCall.pts[1]
              a2 == kernelCall.pts[2]
              b1 == kernelCall.pts[3]
              b2 == kernelCall.pts[4]
              touching == \/ onSegment(a1, a2, b1) \/ onSegment(a1, a2, b2)
                          \/ onSegment(b1, b2, a1) \/ onSegment(b1, b2, a2)
              parallel == (a2.lng - a1.lng) * (b2.lat - b1.lat)
                             = (b2.lng - b1.lng) * (a2.lat - a1.lat)
          IN  /\ kernelResult.hit <=> properlyCross(a1, a2, b1, b2)
              /\ touching => ~kernelResult.hit
              /\ parallel => ~kernelResult.hit

\* C24 witness: two segments with four different ends were found to cross
C24_Witness ==
    /\ kernelResult.done
    /\ kernelCall.fn = "doLinesIntersect"
    /\ kernelResult.hit
    /\ Cardinality({kernelCall.pts[i] : i \in 1..4}) = 4

\* C25: snapPoint returns the first vertex, in insertion order, whose distance
\* d to the candidate satisfies 0 < d < SNAP_TOLERANCE, whether or not a later
\* vertex is nearer; when no vertex qualifies (d = 0 included, and the empty
\* polygon) it returns the candidate as it is.
C25_SnapFirstMatch ==
    (kernelResult.done /\ kernelCall.fn = "snapPoint")
       => LET coords == kernelCall.pts
              p == kernelCall.p
              d2(i) == calculateDistanceSq(p, coords[i])
              qualifies == {i \in 1..Len(coords) :
                               0 < d2(i) /\ d2(i) < SNAP_TOLERANCE_UNITS * SNAP_TOLERANCE_UNITS}
          IN  IF qualifies = {}
              THEN kernelResult.pt = p
              ELSE \E i \in qualifies :
                      /\ \A j \in qualifies : i <= j
                      /\ kernelResult.pt = coords[i]

\* C25 witness: the first vertex in tolerance was returned although a later
\* one lies nearer to the candidate
C25_Witness ==
    /\ kernelResult.done
    /\ kernelCall.fn = "snapPoint"
    /\ Len(kernelCall.pts) >= 2
    /\ kernelResult.pt = kernelCall.pts[1]
    /\ kernelResult.pt # kernelCall.p
    /\ \E j \in 2..Len(kernelCall.pts) :
          /\ calculateDistanceSq(kernelCall.p, kernelCall.pts[j]) > 0
          /\ calculateDistanceSq(kernelCall.p, kernelCall.pts[j])
                < calculateDistanceSq(kernelCall.p, kernelCall.pts[1])

\* C26 as stated: whenever the boundary is Locked its vertex sequence is the
\* one handed to the persistence port by the save that locked it, also when
\* add, undo or clear commands were issued while that save was pending.  Taken
\* at the step that locks: the vertices then present, written to eight
\* decimals as the port stores them, are the coordinates of the pending call.
C26_Original ==
    [][(~isLocked /\ isLocked' /\ inFlight # NoCall)
          => boundaryPayload(polygonCoords').coordinates
                = Head(inFlight).coordinates
      ]_vars

\* Edge k of the closed ring over coords: from vertex k to the next one, the
\* last edge closing back to the first vertex
ringEnd(coords, k) == coords[(k % Len(coords)) + 1]

\* C27 as stated: a polygon of MIN_POINTS or more vertices, closed by the edge
\* from its last vertex back to its first, has no two edges that properly
\* cross unless they are adjacent.
C27_Original ==
    Len(polygonCoords) >= MIN_POINTS
       => \A i, j \in 1..Len(polygonCoords) :
             (i + 1 < j /\ ~(i = 1 /\ j = Len(polygonCoords)))
                => ~properlyCross(polygonCoords[i], ringEnd(polygonCoords, i),
                                  polygonCoords[j], ringEnd(polygonCoords, j))

\* C28 as stated: while the modal is in view mode no command changes the
\* vertex sequence; adding, undoing, removing by index and clearing take
\* effect only after the mode has been switched to edit.
C28_Original ==
    [][mapMode = "view" => polygonCoords' = polygonCoords]_vars

\* C29: in every reachable state a Locked boundary is shown in view mode; the
\* lifecycle is never Locked while the mode is edit.
C29_LockedImpliesView == Locked => mapMode = "view"

\* C29 witness: the Unlock button was pressed on a locked boundary and the
\* confirmation declined, which left it locked and in view mode
C29_Witness ==
    /\ Locked
    /\ unlockAnswer = "cancel"
    /\ mapMode = "view"
    /\ Len(polygonCoords) >= MIN_POINTS

====
